---- MODULE Spec2Model ----
(***************************************************************************)
(* next-query-params: the query-string codec (parseQuery) and the          *)
(* useQueryParams hook (read, update, reset, debounced flush of the        *)
(* deferred updates shared through QueryParamsProvider).                   *)
(*                                                                         *)
(* JavaScript strings are sequences of one-character strings, so that      *)
(* Number(...) and `${...}` are computed and not assumed to be inverse.    *)
(* Field names are plain strings: the code only compares them.             *)
(***************************************************************************)
EXTENDS Integers, Sequences, FiniteSets, TLC

(* ---------------------------------------------------------------------- *)
(* Bounds of the model                                                     *)
(* ---------------------------------------------------------------------- *)

\* caller operations (update, reset, unmount) in one behaviour
MaxOps == 2

\* granularity of the clock: one Tick lets this much time pass
TickMs == 300

\* the count of router.replace calls stops here
MaxReplace == 9

(* ---------------------------------------------------------------------- *)
(* enum QueryParamKind                                                     *)
(* ---------------------------------------------------------------------- *)

\* QueryParamKind.STRING (STRING alone is a reserved word here)
STRING_KIND == 1

STRING_DEFERRED == 2

STRING_LIST == 3

STRING_SET == 4

STRING_LIST_DEFAULT_UNDEFINED == 5

STRING_REQUIRED == 6

NUMBER == 7

NUMBER_DEFERRED == 8

Kinds == 1..8

\* the setTimeout delay of the flush effect
DebounceMs == 600

(* ---------------------------------------------------------------------- *)
(* JavaScript values                                                       *)
(* ---------------------------------------------------------------------- *)

Undefined == [t |-> "undefined", v |-> <<>>]

Null == [t |-> "null", v |-> <<>>]

\* a string; s is its sequence of characters
Str(s) == [t |-> "string", v |-> s]

\* a number other than NaN (the model keeps to the naturals)
Num(n) == [t |-> "number", v |-> n]

NaN == [t |-> "NaN", v |-> <<>>]

\* an array of strings, xs the sequence of their character sequences
Arr(xs) == [t |-> "array", v |-> xs]

\* a Set of strings in insertion order, xs without duplicates
SetOf(xs) == [t |-> "set", v |-> xs]

IsArray(x) == x.t = "array"

IsString(x) == x.t = "string"

\* x == null in JavaScript: null or undefined
IsNullish(x) == x.t \in {"null", "undefined"}

Digits == <<"0", "1", "2", "3", "4", "5", "6", "7", "8", "9">>

IsDigit(c) == \E i \in 1..10 : Digits[i] = c

DigitVal(c) == (CHOOSE i \in 1..10 : Digits[i] = c) - 1

RECURSIVE DecimalOf(_)
DecimalOf(s) ==
    IF s = <<>> THEN 0
    ELSE 10 * DecimalOf(SubSeq(s, 1, Len(s) - 1)) + DigitVal(s[Len(s)])

\* Number(x) for x undefined or a string over letters and digits:
\* Number(undefined) is NaN, Number("") is 0, a digit string is its decimal
\* value and every other string is NaN.
ToNumber(x) ==
    IF ~IsString(x) THEN NaN
    ELSE IF \A i \in 1..Len(x.v) : IsDigit(x.v[i]) THEN Num(DecimalOf(x.v))
    ELSE NaN

\* the decimal digits of a number, the lowest first
RECURSIVE DigitsOfReversed(_)
DigitsOfReversed(n) ==
    IF n < 10 THEN <<Digits[n + 1]>>
    ELSE <<Digits[(n % 10) + 1]>> \o DigitsOfReversed(n \div 10)

RECURSIVE DigitsOf(_)
DigitsOf(n) ==
    IF n < 10 THEN <<Digits[n + 1]>>
    ELSE DigitsOf(n \div 10) \o <<Digits[(n % 10) + 1]>>

\* `${x}` for x a string or a number: the characters of the result
TemplateString(x) ==
    IF x.t = "string" THEN x.v
    ELSE IF x.t = "number" THEN DigitsOf(x.v)
    ELSE <<"N", "a", "N">>

defaultNaNToUndefinedSwapped(n) == IF n.t = "NaN" THEN n ELSE Undefined

defaultNaNToUndefined(n) == IF n.t = "NaN" THEN Undefined ELSE n

\* a[0] of an array
Index0(a) == IF Len(a.v) = 0 THEN Undefined ELSE Str(a.v[1])

\* new Set(xs): the elements of xs in order of first occurrence
RECURSIVE Dedup(_)
Dedup(xs) ==
    IF xs = <<>> THEN <<>>
    ELSE LET front == Dedup(SubSeq(xs, 1, Len(xs) - 1))
             last == xs[Len(xs)]
         IN IF \E i \in 1..Len(front) : front[i] = last
            THEN front ELSE Append(front, last)

(* ---------------------------------------------------------------------- *)
(* parseQuery                                                              *)
(* ---------------------------------------------------------------------- *)

\* query[name]: undefined for a key the query object lacks
Lookup(query, name) ==
    IF name \in DOMAIN query THEN query[name] ELSE Undefined

\* the value the switch assigns to valueMapping[name]
DecodeField(kind, queryParamValue) ==
    CASE kind \in {STRING_KIND, STRING_DEFERRED, STRING_REQUIRED} ->
            IF IsArray(queryParamValue) THEN Index0(queryParamValue)
            ELSE queryParamValue
      [] kind \in {NUMBER, NUMBER_DEFERRED} ->
            IF IsArray(queryParamValue)
            THEN defaultNaNToUndefined(ToNumber(Index0(queryParamValue)))
            ELSE defaultNaNToUndefined(ToNumber(queryParamValue))
      [] kind = STRING_LIST ->
            IF IsNullish(queryParamValue) THEN Arr(<<>>)
            ELSE IF IsArray(queryParamValue) THEN queryParamValue
            ELSE Arr(<<queryParamValue.v>>)
      [] kind = STRING_SET ->
            IF IsNullish(queryParamValue) THEN SetOf(<<>>)
            ELSE IF IsArray(queryParamValue) THEN SetOf(Dedup(queryParamValue.v))
            ELSE SetOf(<<queryParamValue.v>>)
      [] kind = STRING_LIST_DEFAULT_UNDEFINED ->
            IF IsNullish(queryParamValue) THEN Undefined
            ELSE IF IsArray(queryParamValue) THEN queryParamValue
            ELSE Arr(<<queryParamValue.v>>)

\* the check made for every string kind
RequiredMissingAnyString(kind, value) ==
    kind \in {STRING_KIND, STRING_REQUIRED} /\ ~IsString(value)

\* the check after the switch: a required string that is no string
RequiredMissing(kind, value) ==
    kind = STRING_REQUIRED /\ ~IsString(value)

\* the result of parseQuery: the error it throws, or valueMapping
Threw == [threw |-> TRUE, value |-> <<>>]

Returned(valueMapping) == [threw |-> FALSE, value |-> valueMapping]

parseQuery(query, params) ==
    LET decoded == [name \in DOMAIN params |->
                        DecodeField(params[name], Lookup(query, name))]
    IN IF \E name \in DOMAIN params :
              RequiredMissing(params[name], decoded[name])
       THEN Threw
       ELSE Returned(decoded)

(* ---------------------------------------------------------------------- *)
(* URLSearchParams: a sequence of [k, v] pairs, v a character sequence     *)
(* ---------------------------------------------------------------------- *)

SPHas(sp, name) == \E i \in 1..Len(sp) : sp[i].k = name

SPDelete(sp, name) == SelectSeq(sp, LAMBDA e : e.k # name)

SPAppend(sp, name, value) == Append(sp, [k |-> name, v |-> value])

\* set that leaves the one pair and drops every other key
SPSetAlone(sp, name, value) == <<[k |-> name, v |-> value]>>

\* set: the first occurrence takes the value, the others are removed
SPSet(sp, name, value) ==
    IF ~SPHas(sp, name) THEN SPAppend(sp, name, value)
    ELSE LET first == CHOOSE i \in 1..Len(sp) :
                          /\ sp[i].k = name
                          /\ \A j \in 1..(i - 1) : sp[j].k # name
         IN SubSeq(sp, 1, first - 1)
              \o <<[k |-> name, v |-> value]>>
              \o SPDelete(SubSeq(sp, first + 1, Len(sp)), name)

\* getAll: the values of a key, in order
SPGetAll(sp, name) ==
    LET own == SelectSeq(sp, LAMBDA e : e.k = name)
    IN [i \in 1..Len(own) |-> own[i].v]

SPKeys(sp) == {sp[i].k : i \in 1..Len(sp)}

\* router.query of the router for a query string: a key that occurs once
\* is a string, a key that occurs several times is an array
RouterQuery(sp) ==
    [name \in SPKeys(sp) |->
        LET vs == SPGetAll(sp, name)
        IN IF Len(vs) = 1 THEN Str(vs[1]) ELSE Arr(vs)]

(* ---------------------------------------------------------------------- *)
(* Plain objects with ordered keys (the update objects, the deferred       *)
(* updates): a sequence of [k, v] entries with distinct keys               *)
(* ---------------------------------------------------------------------- *)

ObjKeys(obj) == {obj[i].k : i \in 1..Len(obj)}

ObjGet(obj, name) ==
    IF name \in ObjKeys(obj)
    THEN obj[CHOOSE i \in 1..Len(obj) : obj[i].k = name].v
    ELSE Undefined

\* obj[name] = value
ObjSet(obj, name, value) ==
    IF name \in ObjKeys(obj)
    THEN [i \in 1..Len(obj) |->
             IF obj[i].k = name THEN [k |-> name, v |-> value] ELSE obj[i]]
    ELSE Append(obj, [k |-> name, v |-> value])

\* Object.assign with the target winning
ObjectAssignReversed(target, source) ==
    [name \in DOMAIN target \cup ObjKeys(source) |->
        IF name \in DOMAIN target THEN target[name] ELSE ObjGet(source, name)]

\* Object.assign(target, source) for a target held as a function
ObjectAssign(target, source) ==
    [name \in DOMAIN target \cup ObjKeys(source) |->
        IF name \in ObjKeys(source) THEN ObjGet(source, name) ELSE target[name]]

(* ---------------------------------------------------------------------- *)
(* updateValues: the loop over the entries of nextValues                   *)
(* ---------------------------------------------------------------------- *)

\* isImmediateUpdate from the flag alone, whatever the kind
IsImmediateUpdateByFlag(params, name, immediate) == immediate

IsImmediateUpdate(params, name, immediate) ==
    \/ immediate
    \/ name \notin DOMAIN params
    \/ /\ params[name] # NUMBER_DEFERRED
       /\ params[name] # STRING_DEFERRED

RECURSIVE AppendAll(_, _, _)
AppendAll(sp, name, xs) ==
    IF xs = <<>> THEN sp
    ELSE AppendAll(SPAppend(sp, name, Head(xs)), name, Tail(xs))

\* the list and set cases with append for the first element as well
WriteListAppending(sp, name, xs) ==
    IF Len(xs) = 0 THEN SPDelete(sp, name)
    ELSE AppendAll(sp, name, xs)

\* the list and set cases: delete for no element, else set the first and
\* append the others
WriteList(sp, name, xs) ==
    IF Len(xs) = 0 THEN SPDelete(sp, name)
    ELSE AppendAll(SPSet(sp, name, xs[1]), name, Tail(xs))

\* the null branch with the deferred and the immediate arm exchanged
NullBranchSwapped(acc, params, name, immediate) ==
    IF IsImmediateUpdate(params, name, immediate)
    THEN [acc EXCEPT !.nextDeferredValues = ObjSet(@, name, Null)]
    ELSE [acc EXCEPT !.url = SPDelete(@, name)]

\* nextValue === null
NullBranch(acc, params, name, immediate) ==
    IF IsImmediateUpdate(params, name, immediate)
    THEN [acc EXCEPT !.url = SPDelete(@, name)]
    ELSE [acc EXCEPT !.nextDeferredValues = ObjSet(@, name, Null)]

\* the scalar case of the switch (string, number, required string)
ScalarBranch(acc, name, nextValue, isImmediateUpdate) ==
    LET stringValue == TemplateString(nextValue)
    IN IF stringValue = <<>>
       THEN IF isImmediateUpdate
            THEN [acc EXCEPT !.url = SPDelete(@, name)]
            ELSE [acc EXCEPT !.nextDeferredValues = ObjSet(@, name, Null)]
       ELSE IF isImmediateUpdate
            THEN [acc EXCEPT !.url = SPSet(@, name, stringValue)]
            ELSE [acc EXCEPT !.nextDeferredValues = ObjSet(@, name, nextValue)]

\* listValue[0] and the iteration of listValue.slice(1), Array.from(setValue):
\* the elements of an array or a Set, the characters of a string
ListElements(nextValue) ==
    IF nextValue.t = "string"
    THEN [i \in 1..Len(nextValue.v) |-> <<nextValue.v[i]>>]
    ELSE nextValue.v

\* one iteration of the for loop; acc holds the search parameters of the
\* working url and nextDeferredValues
UpdateEntry(acc, params, name, nextValue, immediate) ==
    IF nextValue.t = "undefined" THEN acc
    ELSE IF nextValue.t = "null" THEN NullBranch(acc, params, name, immediate)
    ELSE IF name \notin DOMAIN params THEN acc
    ELSE LET kind == params[name]
         IN IF kind \in {STRING_KIND, STRING_DEFERRED, NUMBER, NUMBER_DEFERRED,
                         STRING_REQUIRED}
            THEN ScalarBranch(acc, name, nextValue,
                              IsImmediateUpdate(params, name, immediate))
            ELSE IF kind \in {STRING_LIST, STRING_LIST_DEFAULT_UNDEFINED,
                              STRING_SET}
            THEN [acc EXCEPT
                    !.url = WriteList(@, name, ListElements(nextValue))]
            ELSE acc

RECURSIVE UpdateLoop(_, _, _, _)
UpdateLoop(acc, params, nextValues, immediate) ==
    IF nextValues = <<>> THEN acc
    ELSE UpdateLoop(
            UpdateEntry(acc, params, Head(nextValues).k, Head(nextValues).v,
                        immediate),
            params, Tail(nextValues), immediate)

\* the working url and nextDeferredValues when the loop is over
UpdateResult(sp, params, nextValues, immediate) ==
    UpdateLoop([url |-> sp, nextDeferredValues |-> <<>>],
               params, nextValues, immediate)

(* ---------------------------------------------------------------------- *)
(* The components: one QueryParamsProvider (or none) and the mounted       *)
(* useQueryParams hooks                                                    *)
(* ---------------------------------------------------------------------- *)

VARIABLES
    url,              \* window.location: [path, search, hash]
    hasProvider,      \* whether the hooks are under a QueryParamsProvider
    deferredUpdates,  \* the state of the provider
    mounted,          \* the hook instances that are mounted
    timer,            \* per hook: the timeout of its flush effect
    values,           \* per hook: the values of its last render
    dirty,            \* a render is scheduled and has not happened yet
    nReplace,         \* router.replace calls so far
    nOps,             \* caller operations so far
    pair,             \* history: the last one or two deferred updates
    last,             \* history: the step just taken by a caller or a timeout
    pq                \* a call of parseQuery on its own

vars == <<url, hasProvider, deferredUpdates, mounted, timer, values, dirty,
          nReplace, nOps, pair, last, pq>>

Hooks == {1, 2, 3, 4}

\* the params each hook instance is called with; hook 3 is the one with
\* the list kinds, the set kind and the immediate number, hook 4 declares
\* the list l of hook 3 as a deferred string
ParamsOf(h) ==
    IF h = 1
    THEN [q |-> STRING_DEFERRED, n |-> NUMBER_DEFERRED, s |-> STRING_KIND]
    ELSE IF h = 2
    THEN [n |-> NUMBER_DEFERRED]
    ELSE IF h = 3
    THEN [l |-> STRING_LIST, o |-> STRING_LIST_DEFAULT_UNDEFINED,
          t |-> STRING_SET, m |-> NUMBER, s |-> STRING_KIND,
          q |-> STRING_DEFERRED, n |-> NUMBER_DEFERRED]
    ELSE [l |-> STRING_DEFERRED]

IsDeferredKind(kind) == kind \in {STRING_DEFERRED, NUMBER_DEFERRED}

\* the field names callers put in update objects; x is declared by no hook
Names == {"q", "n", "s", "x"}

StrVals == {<<>>, <<"a">>, <<"b">>}

NumVals == {0, 7}

TypedValues(name) ==
    IF name = "n" THEN {Num(k) : k \in NumVals}
    ELSE IF name = "x" THEN {Str(<<"a">>)}
    ELSE {Str(c) : c \in StrVals}

Entries(name) ==
    {[k |-> name, v |-> x] : x \in TypedValues(name) \cup {Null, Undefined}}

\* the update objects the callers of hook h pass. Hook 1: every one-entry
\* object, and two-entry objects that name q first and n, s or x second.
\* Hook 2: the one-entry objects for n, which it declares, and for q,
\* which it does not.
UpdateObjects(h) ==
    IF h = 1
    THEN {<<e>> : e \in UNION {Entries(name) : name \in Names}}
         \cup {<<e1, e2>> :
                 e1 \in {[k |-> "q", v |-> x] : x \in {Str(<<"a">>), Null}},
                 e2 \in {[k |-> "n", v |-> Num(7)],
                         [k |-> "s", v |-> Str(<<"b">>)],
                         [k |-> "s", v |-> Null], [k |-> "x", v |-> Null]}}
    ELSE {<<e>> : e \in Entries("n") \cup Entries("q")}

\* the locations a behaviour starts at
InitSearches ==
    { <<>>,
      <<[k |-> "x", v |-> <<"a">>], [k |-> "q", v |-> <<"b">>]>>,
      <<[k |-> "s", v |-> <<"a">>], [k |-> "s", v |-> <<"b">>],
        [k |-> "n", v |-> <<"7">>]>> }

InitUrls ==
    {[path |-> IF sp = <<>> THEN "/" ELSE "/list", search |-> sp,
      hash |-> IF sp = <<>> THEN "" ELSE "#top"] : sp \in InitSearches}

NoTimer == [armed |-> FALSE, left |-> 0, snapshot |-> <<>>]

\* the effect with the deferredUpdates of the first render captured
ArmedWithFirstRender(captured) ==
    [armed |-> TRUE, left |-> DebounceMs, snapshot |-> <<>>]

\* the effect: setTimeout(..., 600) with deferredUpdates captured
Armed(captured) == [armed |-> TRUE, left |-> DebounceMs, snapshot |-> captured]

\* useMemo of values: parseQuery, then Object.assign with deferredUpdates
RenderValues(h, sp, deferred) ==
    LET parsed == parseQuery(RouterQuery(sp), ParamsOf(h))
    IN IF parsed.threw THEN Threw
       ELSE Returned(ObjectAssign(parsed.value, deferred))

NoPair == [n |-> 0, name |-> "", first |-> Undefined, second |-> Undefined,
           elapsed |-> 0, base |-> 0, start |-> <<>>]

\* no caller operation and no timeout ran in the last step
NoStep == [op |-> "none", h |-> 0, nextValues |-> <<>>, immediate |-> FALSE,
           search |-> <<>>, deferred |-> <<>>, count |-> 0]

\* the step op of hook h and the state it started in
Step(op, h, nextValues, immediate) ==
    [op |-> op, h |-> h, nextValues |-> nextValues, immediate |-> immediate,
     search |-> url.search, deferred |-> deferredUpdates, count |-> nReplace]

NoCall == [pc |-> "idle", query |-> <<>>, params |-> <<>>, result |-> Threw]

Init ==
    /\ url \in InitUrls
    /\ hasProvider \in BOOLEAN
    /\ deferredUpdates = <<>>
    /\ mounted \in IF hasProvider THEN {{1}, {1, 2}} ELSE {{1}}
    /\ timer = [h \in Hooks |-> IF h \in mounted THEN Armed(<<>>) ELSE NoTimer]
    /\ values = [h \in Hooks |-> RenderValues(h, url.search, <<>>)]
    /\ dirty = FALSE
    /\ nReplace = 0
    /\ nOps = 0
    /\ pair = NoPair
    /\ last = NoStep
    /\ pq = NoCall

(* ---------------------------------------------------------------------- *)
(* The operations of a hook instance                                       *)
(* ---------------------------------------------------------------------- *)

\* one more call of router.replace
Replaced(count) == IF count < MaxReplace THEN count + 1 ELSE count

\* setDeferredUpdates that keeps the entries the update does not name
RECURSIVE setDeferredUpdatesMerging(_, _)
setDeferredUpdatesMerging(previous, update) ==
    IF update = <<>> THEN previous
    ELSE setDeferredUpdatesMerging(
            ObjSet(previous, Head(update).k, Head(update).v), Tail(update))

\* setDeferredUpdates(update) of the provider's useState: the new state
setDeferredUpdates(previous, update) == update

\* the default context value: setDeferredUpdates is an empty function
ContextSet(previous, update) ==
    IF hasProvider THEN setDeferredUpdates(previous, update) ELSE previous

\* updateValues without the comparison of the two hrefs
updateValuesAlwaysReplacing(h, nextValues, immediate) ==
    LET out == UpdateResult(url.search, ParamsOf(h), nextValues, immediate)
        staged == Len(out.nextDeferredValues) > 0
    IN /\ deferredUpdates' =
              IF staged THEN ContextSet(deferredUpdates, out.nextDeferredValues)
              ELSE deferredUpdates
       /\ url' = [url EXCEPT !.search = out.url]
       /\ nReplace' = Replaced(nReplace)
       /\ dirty' = TRUE

\* updateValues with a router.replace for every entry of nextValues
updateValuesReplacingPerEntry(h, nextValues, immediate) ==
    LET out == UpdateResult(url.search, ParamsOf(h), nextValues, immediate)
        staged == Len(out.nextDeferredValues) > 0
        navigates == out.url # url.search
    IN /\ deferredUpdates' =
              IF staged THEN ContextSet(deferredUpdates, out.nextDeferredValues)
              ELSE deferredUpdates
       /\ url' = IF navigates THEN [url EXCEPT !.search = out.url] ELSE url
       /\ nReplace' = IF navigates THEN nReplace + Len(nextValues)
                      ELSE nReplace
       /\ dirty' = (dirty \/ (staged /\ hasProvider) \/ navigates)

\* updateValues(nextValues, {immediate}) of hook h, from the loop's result
\* on: the staged entries go to the provider, and the working url replaces
\* the location when it differs from it
updateValues(h, nextValues, immediate) ==
    LET out == UpdateResult(url.search, ParamsOf(h), nextValues, immediate)
        staged == Len(out.nextDeferredValues) > 0
        navigates == out.url # url.search
    IN /\ deferredUpdates' =
              IF staged THEN ContextSet(deferredUpdates, out.nextDeferredValues)
              ELSE deferredUpdates
       /\ url' = IF navigates THEN [url EXCEPT !.search = out.url] ELSE url
       /\ nReplace' = IF navigates THEN Replaced(nReplace) ELSE nReplace
       /\ dirty' = (dirty \/ (staged /\ hasProvider) \/ navigates)

\* a one-entry update without the immediate flag that names a field of a
\* deferred kind, issued by the only hook instance under a provider
IsDeferredWrite(h, nextValues, immediate) ==
    /\ hasProvider
    /\ mounted = {h}
    /\ ~immediate
    /\ Len(nextValues) = 1
    /\ nextValues[1].k \in DOMAIN ParamsOf(h)
    /\ IsDeferredKind(ParamsOf(h)[nextValues[1].k])
    /\ nextValues[1].v.t # "undefined"

\* no deferred update is pending: none in the provider, none in a timeout
NothingPending ==
    /\ deferredUpdates = <<>>
    /\ \A h \in Hooks : timer[h].snapshot = <<>>

\* history: the deferred writes to one field that follow each other
\* within the debounce window with no other caller operation in between
PairAfterUpdate(h, nextValues, immediate) ==
    IF ~IsDeferredWrite(h, nextValues, immediate) THEN NoPair
    ELSE IF /\ pair.n = 1
            /\ pair.name = nextValues[1].k
            /\ pair.elapsed < DebounceMs
    THEN [pair EXCEPT !.n = 2, !.second = nextValues[1].v, !.elapsed = 0]
    ELSE IF ~NothingPending THEN NoPair
    ELSE [n |-> 1, name |-> nextValues[1].k, first |-> nextValues[1].v,
          second |-> Undefined, elapsed |-> 0, base |-> nReplace,
          start |-> url.search]

\* a caller invokes the update function hook h returned
Update(h, nextValues, immediate) ==
    /\ h \in mounted
    /\ nOps < MaxOps
    /\ ~dirty
    /\ updateValues(h, nextValues, immediate)
    /\ pair' = PairAfterUpdate(h, nextValues, immediate)
    /\ nOps' = nOps + 1
    /\ last' = Step("update", h, nextValues, immediate)
    /\ UNCHANGED <<hasProvider, mounted, timer, values, pq>>

\* delete(param) for the keys a live keys() iterator still yields while the
\* entries before it are being deleted: every other entry is skipped
DeleteWhileIterating(sp) ==
    LET kept == {sp[i].k : i \in {j \in 1..Len(sp) : j % 2 = 0}}
                    \ {sp[i].k : i \in {j \in 1..Len(sp) : j % 2 = 1}}
    IN SelectSeq(sp, LAMBDA e : e.k \in kept)

\* for (const param of Array.from(url.searchParams.keys())) delete(param)
RECURSIVE DeleteKeys(_, _)
DeleteKeys(sp, keys) ==
    IF keys = <<>> THEN sp
    ELSE DeleteKeys(SPDelete(sp, Head(keys)), Tail(keys))

DeleteAllKeys(sp) == DeleteKeys(sp, [i \in 1..Len(sp) |-> sp[i].k])

\* resetFields: every key deleted, setDeferredUpdates({}), router.replace.
\* Callers act on a rendered component: between renders.
Reset(h) ==
    /\ h \in mounted
    /\ nOps < MaxOps
    /\ ~dirty
    /\ url' = [url EXCEPT !.search = DeleteAllKeys(@)]
    /\ deferredUpdates' = ContextSet(deferredUpdates, <<>>)
    /\ nReplace' = Replaced(nReplace)
    /\ dirty' = TRUE
    /\ pair' = NoPair
    /\ nOps' = nOps + 1
    /\ last' = Step("reset", h, <<>>, FALSE)
    /\ UNCHANGED <<hasProvider, mounted, timer, values, pq>>

\* the render that a state change or a navigation scheduled: every mounted
\* hook computes its values, the cleanup of its effect clears the timeout
\* and the effect sets a new one that captures the deferredUpdates rendered
Commit ==
    /\ dirty
    /\ dirty' = FALSE
    /\ values' = [h \in Hooks |->
                    IF h \in mounted
                    THEN RenderValues(h, url.search, deferredUpdates)
                    ELSE values[h]]
    /\ timer' = [h \in Hooks |->
                    IF h \in mounted THEN Armed(deferredUpdates) ELSE NoTimer]
    /\ last' = NoStep
    /\ UNCHANGED <<url, hasProvider, deferredUpdates, mounted, nReplace, nOps,
                   pair, pq>>

\* the timeout of hook h runs: updateValues(deferredUpdates, {immediate:
\* true}) on the deferredUpdates it captured, when they have a key
Fire(h) ==
    /\ h \in mounted
    /\ timer[h].armed
    /\ timer[h].left = 0
    /\ IF Len(timer[h].snapshot) > 0
       THEN updateValues(h, timer[h].snapshot, TRUE)
       ELSE UNCHANGED <<url, deferredUpdates, nReplace, dirty>>
    /\ timer' = [timer EXCEPT ![h] = NoTimer]
    /\ last' = Step("fire", h, timer[h].snapshot, TRUE)
    /\ UNCHANGED <<hasProvider, mounted, values, nOps, pair, pq>>

\* the component of hook h unmounts: the cleanup clears its timeout
Unmount(h) ==
    /\ h \in mounted
    /\ nOps < MaxOps
    /\ ~dirty
    /\ mounted' = mounted \ {h}
    /\ timer' = [timer EXCEPT ![h] = NoTimer]
    /\ pair' = NoPair
    /\ nOps' = nOps + 1
    /\ last' = Step("unmount", h, <<>>, FALSE)
    /\ UNCHANGED <<url, hasProvider, deferredUpdates, values, dirty, nReplace,
                   pq>>

Max(a, b) == IF a > b THEN a ELSE b

Min(a, b) == IF a < b THEN a ELSE b

\* time passes; a render that is scheduled and a timeout that is due run
\* before any more of it does
Tick ==
    /\ ~dirty
    /\ \A h \in Hooks : timer[h].armed => timer[h].left > 0
    /\ \/ \E h \in Hooks : timer[h].armed
       \/ pair.n = 1 /\ pair.elapsed < DebounceMs
    /\ timer' = [h \in Hooks |->
                   IF timer[h].armed
                   THEN [timer[h] EXCEPT !.left = Max(@ - TickMs, 0)]
                   ELSE timer[h]]
    /\ pair' = IF pair.n = 1
               THEN [pair EXCEPT !.elapsed = Min(@ + TickMs, DebounceMs)]
               ELSE pair
    /\ last' = NoStep
    /\ UNCHANGED <<url, hasProvider, deferredUpdates, mounted, values, dirty,
                   nReplace, nOps, pq>>

Next ==
    \/ \E h \in Hooks, immediate \in BOOLEAN :
          \E nextValues \in UpdateObjects(h) : Update(h, nextValues, immediate)
    \/ \E h \in Hooks : Reset(h)
    \/ \E h \in Hooks : Unmount(h)
    \/ \E h \in Hooks : Fire(h)
    \/ Commit
    \/ Tick

Spec == Init /\ [][Next]_vars

\* The same components under a provider, with fewer caller inputs, for the
\* properties of what eventually happens: the calls of the update function
\* of hook h, each an update object and its immediate flag.
FlushCalls(h) ==
    IF h = 1
    THEN { [nextValues |-> <<[k |-> "q", v |-> Str(<<"a">>)]>>, immediate |-> FALSE],
           [nextValues |-> <<[k |-> "q", v |-> Str(<<>>)]>>, immediate |-> FALSE],
           [nextValues |-> <<[k |-> "q", v |-> Undefined]>>, immediate |-> FALSE],
           [nextValues |-> <<[k |-> "n", v |-> Num(0)]>>, immediate |-> FALSE],
           [nextValues |-> <<[k |-> "q", v |-> Str(<<"b">>)],
                             [k |-> "n", v |-> Num(7)]>>, immediate |-> FALSE],
           [nextValues |-> <<[k |-> "q", v |-> Str(<<"b">>)]>>, immediate |-> TRUE],
           [nextValues |-> <<[k |-> "s", v |-> Str(<<"b">>)]>>, immediate |-> FALSE] }
    ELSE { [nextValues |-> <<[k |-> "n", v |-> Num(7)]>>, immediate |-> FALSE],
           [nextValues |-> <<[k |-> "n", v |-> Null]>>, immediate |-> FALSE] }

FlushInit == Init /\ hasProvider /\ url.search # <<>>

FlushNext ==
    \/ \E h \in Hooks : \E call \in FlushCalls(h) :
          Update(h, call.nextValues, call.immediate)
    \/ \E h \in Hooks : Reset(h)
    \/ \E h \in Hooks : Unmount(h)
    \/ \E h \in Hooks : Fire(h)
    \/ Commit
    \/ Tick

\* what happens without a caller: a scheduled render, a due timeout, time
Scheduler == Commit \/ Tick \/ \E h \in Hooks : Fire(h)

\* the event loop does not stop while it has a render or a timeout to run
FairSpec ==
    /\ FlushInit
    /\ [][FlushNext]_vars
    /\ WF_vars(Scheduler)

(* ---------------------------------------------------------------------- *)
(* parseQuery on its own: one call on a query object and a mapping         *)
(* ---------------------------------------------------------------------- *)

\* longest array of a raw query value
MaxArrayLen == 2

CodecStrings == {<<>>, <<"a">>, <<"7">>, <<"1", "2">>}

CodecArrays == UNION {[1..len -> CodecStrings] : len \in 0..MaxArrayLen}

\* the raw values of field f: absent, a string, an array of strings
RawValues ==
    {Undefined} \cup {Str(c) : c \in CodecStrings}
                \cup {Arr(xs) : xs \in CodecArrays}

\* the raw values of the second field g
RawValuesOfG == {Undefined, Str(<<"a">>), Arr(<<>>)}

\* the query object with the raw values rf and rg, absent keys left out
QueryObject(rf, rg) ==
    [name \in {c \in {"f"} : rf.t # "undefined"}
              \cup {c \in {"g"} : rg.t # "undefined"} |->
        IF name = "f" THEN rf ELSE rg]

\* mappings of f alone, of every kind, and of f with a second field g
CodecParams ==
    {[f |-> kind] : kind \in Kinds}
    \cup {[f |-> kind, g |-> other] :
            kind \in Kinds, other \in {STRING_REQUIRED, NUMBER}}

InitCodec ==
    /\ url = [path |-> "/", search |-> <<>>, hash |-> ""]
    /\ hasProvider = FALSE
    /\ deferredUpdates = <<>>
    /\ mounted = {}
    /\ timer = [h \in Hooks |-> NoTimer]
    /\ values = [h \in Hooks |-> Threw]
    /\ dirty = FALSE
    /\ nReplace = 0
    /\ nOps = 0
    /\ pair = NoPair
    /\ last = NoStep
    /\ \E rf \in RawValues, rg \in RawValuesOfG, params \in CodecParams :
          pq = [pc |-> "call", query |-> QueryObject(rf, rg),
                params |-> params, result |-> Threw]

ParseCall ==
    /\ pq.pc = "call"
    /\ pq' = [pq EXCEPT !.pc = "done",
                        !.result = parseQuery(pq.query, pq.params)]
    /\ UNCHANGED <<url, hasProvider, deferredUpdates, mounted, timer, values,
                   dirty, nReplace, nOps, pair, last>>

NextCodec == ParseCall

SpecCodec == InitCodec /\ [][NextCodec]_vars

(* ---------------------------------------------------------------------- *)
(* One write on its own: hook 3, which declares every kind but the         *)
(* required string, gets one call of its update function                   *)
(* ---------------------------------------------------------------------- *)

\* the arrays a caller passes for a list field
ListValues == UNION {[1..len -> StrVals] : len \in 0..MaxArrayLen}

\* the Sets a caller passes: arrays without a repeated element
SetValues ==
    {xs \in ListValues : \A i, j \in 1..Len(xs) : xs[i] = xs[j] => i = j}

\* the values of the decoded type of each field of hook 3, and null
WriteValues(name) ==
    {Null, Undefined} \cup
    CASE name \in {"l", "o"} -> {Arr(xs) : xs \in ListValues}
      [] name = "t" -> {SetOf(xs) : xs \in SetValues}
      [] name \in {"m", "n"} -> {Num(0), Num(7), Num(12), NaN}
      [] name \in {"s", "q"} -> {Str(c) : c \in CodecStrings}

\* the update objects of the one call: one entry, or an entry for the list
\* l with a second entry for another field
WriteObjects ==
    UNION {{<<[k |-> name, v |-> x]>> : x \in WriteValues(name)} :
              name \in DOMAIN ParamsOf(3)}
    \cup {<<[k |-> "l", v |-> Arr(<< <<"a">>, <<"b">> >>)], e>> :
            e \in {[k |-> "s", v |-> Str(<<"a">>)], [k |-> "t", v |-> Null],
                   [k |-> "q", v |-> Str(<<"a">>)], [k |-> "m", v |-> Undefined]}}

\* the query strings the call starts at: empty, and one that holds every
\* field once or several times, other keys in between
WriteSearches ==
    { <<>>,
      <<[k |-> "l", v |-> <<"b">>], [k |-> "s", v |-> <<"b">>],
        [k |-> "l", v |-> <<"a">>], [k |-> "o", v |-> <<"b">>],
        [k |-> "t", v |-> <<"b">>], [k |-> "m", v |-> <<"7">>],
        [k |-> "l", v |-> <<"b">>], [k |-> "t", v |-> <<"a">>],
        [k |-> "q", v |-> <<"b">>], [k |-> "n", v |-> <<"7">>],
        [k |-> "x", v |-> <<"a">>]>> }

InitWrite ==
    /\ url \in {[path |-> "/list", search |-> sp, hash |-> "#top"] :
                  sp \in WriteSearches}
    /\ hasProvider \in BOOLEAN
    /\ deferredUpdates = <<>>
    /\ mounted = {3}
    /\ timer = [h \in Hooks |-> IF h \in mounted THEN Armed(<<>>) ELSE NoTimer]
    /\ values = [h \in Hooks |-> RenderValues(h, url.search, <<>>)]
    /\ dirty = FALSE
    /\ nReplace = 0
    /\ nOps = 0
    /\ pair = NoPair
    /\ last = NoStep
    /\ pq = NoCall

\* the one call of the update function; the render and the timeouts follow
NextWrite ==
    \/ \E immediate \in BOOLEAN : \E nextValues \in WriteObjects :
          nOps = 0 /\ Update(3, nextValues, immediate)
    \/ Fire(3)
    \/ Commit
    \/ Tick

SpecWrite == InitWrite /\ [][NextWrite]_vars

(* ---------------------------------------------------------------------- *)
(* Two hook instances under one provider whose mappings give one field     *)
(* different kinds: l is a list for hook 3 and a deferred string for       *)
(* hook 4                                                                  *)
(* ---------------------------------------------------------------------- *)

\* the calls of the update function of hook h
MixedCalls(h) ==
    IF h = 4
    THEN { [nextValues |-> <<[k |-> "l", v |-> Str(<<"a", "b">>)]>>,
            immediate |-> FALSE],
           [nextValues |-> <<[k |-> "l", v |-> Str(<<"a">>)]>>,
            immediate |-> FALSE],
           [nextValues |-> <<[k |-> "l", v |-> Null]>>, immediate |-> FALSE],
           [nextValues |-> <<[k |-> "l", v |-> Str(<<"b">>)]>>,
            immediate |-> TRUE] }
    ELSE { [nextValues |-> <<[k |-> "l", v |-> Arr(<< <<"a">>, <<"b">> >>)]>>,
            immediate |-> FALSE],
           [nextValues |-> <<[k |-> "q", v |-> Str(<<"a">>)]>>,
            immediate |-> FALSE],
           [nextValues |-> <<[k |-> "n", v |-> Num(7)]>>, immediate |-> FALSE] }

InitMixed ==
    /\ url \in {[path |-> "/list", search |-> sp, hash |-> "#top"] :
                  sp \in WriteSearches}
    /\ hasProvider = TRUE
    /\ deferredUpdates = <<>>
    /\ mounted = {3, 4}
    /\ timer = [h \in Hooks |-> IF h \in mounted THEN Armed(<<>>) ELSE NoTimer]
    /\ values = [h \in Hooks |-> RenderValues(h, url.search, <<>>)]
    /\ dirty = FALSE
    /\ nReplace = 0
    /\ nOps = 0
    /\ pair = NoPair
    /\ last = NoStep
    /\ pq = NoCall

NextMixed ==
    \/ \E h \in {3, 4} : \E call \in MixedCalls(h) :
          Update(h, call.nextValues, call.immediate)
    \/ \E h \in {3, 4} : Reset(h)
    \/ \E h \in {3, 4} : Fire(h)
    \/ Commit
    \/ Tick

\* the event loop runs what is scheduled, as in FairSpec
MixedSpec ==
    /\ InitMixed
    /\ [][NextMixed]_vars
    /\ WF_vars(Scheduler)

(* ---------------------------------------------------------------------- *)
(* Properties                                                              *)
(* ---------------------------------------------------------------------- *)

\* the occurrences of name in sp are what a write of value leaves: none for
\* null and for the empty string, else the one string of the value
Shows(sp, name, value) ==
    SPGetAll(sp, name) =
        IF value.t = "null" THEN <<>>
        ELSE IF TemplateString(value) = <<>> THEN <<>>
        ELSE <<TemplateString(value)>>

\* no render is scheduled and no timeout is outstanding
Quiet == ~dirty /\ \A h \in Hooks : ~timer[h].armed

\* router.replace calls since the first update of the pair
PairReplacements == nReplace - pair.base

\* the fields for which the update of a step staged a deferred entry
StagedNames(step) ==
    {step.nextValues[i].k : i \in
        {j \in 1..Len(step.nextValues) :
            /\ ~step.immediate
            /\ step.nextValues[j].v.t # "undefined"
            /\ step.nextValues[j].k \in DOMAIN ParamsOf(step.h)
            /\ IsDeferredKind(ParamsOf(step.h)[step.nextValues[j].k])}}

\* the entry of a field in a deferred-updates object is the same in both
SameEntry(a, b, name) ==
    /\ name \in ObjKeys(a) <=> name \in ObjKeys(b)
    /\ ObjGet(a, name) = ObjGet(b, name)

\* C1 as stated: two deferred updates to one field less than a debounce
\* window apart, nothing else written: exactly one URL replacement occurs,
\* it sets the field to the second value, the first value is never written
\* (taken here for a second value that is a number or a non-empty string).
C1_ExactlyOneReplacement ==
    /\ (pair.n = 1 /\ pair.elapsed < DebounceMs) => PairReplacements = 0
    /\ (pair.n = 2 /\ pair.second.t # "null"
                   /\ TemplateString(pair.second) # <<>>) =>
          /\ PairReplacements <= 1
          /\ PairReplacements = 1 => Shows(url.search, pair.name, pair.second)
          /\ Quiet => PairReplacements = 1

\* C1 amended: at most one URL replacement occurs and it sets the field to
\* the second value; there is exactly one unless the URL showed the second
\* value already (the key absent for null and the empty string), and then
\* there is none; the first value is never written.
C1_Coalesced ==
    /\ (pair.n = 1 /\ pair.elapsed < DebounceMs) => PairReplacements = 0
    /\ pair.n = 2 =>
          /\ PairReplacements <= 1
          /\ PairReplacements = 1 => Shows(url.search, pair.name, pair.second)
          /\ Quiet =>
                /\ Shows(url.search, pair.name, pair.second)
                /\ PairReplacements = 1 <=>
                      ~Shows(pair.start, pair.name, pair.second)

\* two different strings were written half a window apart, the timeouts
\* have run and the one replacement shows the second string
C1_Witness ==
    /\ pair.n = 2
    /\ Quiet
    /\ pair.first.t = "string" /\ pair.second.t = "string"
    /\ pair.first.v # <<>> /\ pair.second.v # <<>>
    /\ pair.first # pair.second
    /\ PairReplacements = 1
    /\ SPGetAll(url.search, pair.name) = <<pair.second.v>>

\* C2: after the flush timer has fired and re-invoked the update with the
\* buffered entries and immediate forced true, the deferred buffer is empty.
C2_FlushClearsBuffer ==
    (last.op = "fire" /\ Len(last.nextValues) > 0) => deferredUpdates = <<>>

\* C3: after an update that stages deferred entries for the fields S, the
\* buffer is the previous buffer overridden at S: an entry pending for a
\* field outside S is still pending.
C3_StagingMerges ==
    (last.op = "update" /\ hasProvider /\ StagedNames(last) # {}) =>
        /\ \A name \in ObjKeys(last.deferred) \ StagedNames(last) :
              SameEntry(deferredUpdates, last.deferred, name)
        /\ \A name \in StagedNames(last) : name \in ObjKeys(deferredUpdates)

\* C4: Reset, from any state, yields a URL with no query parameters and an
\* empty deferred buffer, and performs one URL replacement (path and hash
\* are those of the location before).
C4_ResetClears ==
    last.op = "reset" =>
        /\ url.search = <<>>
        /\ deferredUpdates = <<>>
        /\ nReplace = last.count + 1

\* a reset of a location with query parameters, with a deferred update in
\* the buffer and in an outstanding timeout
C4_Witness ==
    /\ last.op = "reset"
    /\ last.search # <<>>
    /\ last.deferred # <<>>
    /\ \E h \in Hooks : timer[h].armed /\ timer[h].snapshot # <<>>
    /\ url.search = <<>>

\* the null entries of the update of the last step, for declared fields
NullFields(step) ==
    {step.nextValues[i].k : i \in
        {j \in 1..Len(step.nextValues) :
            /\ step.nextValues[j].v.t = "null"
            /\ step.nextValues[j].k \in DOMAIN ParamsOf(step.h)}}

\* what C5 says of a null entry for an immediate field, or with the flag
NullImmediate(name) ==
    /\ ~SPHas(url.search, name)
    /\ SameEntry(deferredUpdates, last.deferred, name)
    /\ StagedNames(last) = {} => deferredUpdates = last.deferred

\* what C5 says of the URL for a null entry of a deferred field, no flag
NullDeferredUrl(name) ==
    /\ SPGetAll(url.search, name) = SPGetAll(last.search, name)
    /\ (\A i \in 1..Len(last.nextValues) :
            \/ last.nextValues[i].v.t = "undefined"
            \/ last.nextValues[i].k \in StagedNames(last))
          => (url.search = last.search /\ nReplace = last.count)

\* the buffer records the clear marker for the field
ClearMarker(name) ==
    name \in ObjKeys(deferredUpdates) /\ ObjGet(deferredUpdates, name).t = "null"

\* C5 as stated: an update with null for f removes every occurrence of f
\* from the URL and leaves the buffer alone when f is immediate (by kind or
\* by flag); when f is deferred it leaves the URL unchanged and the buffer
\* records a clear marker for f.
C5_NullEveryContext ==
    last.op = "update" =>
        \A name \in NullFields(last) :
            IF name \in StagedNames(last)
            THEN NullDeferredUrl(name) /\ ClearMarker(name)
            ELSE NullImmediate(name)

\* C5 amended: as stated, where the clear marker is recorded when the hook
\* is under a QueryParamsProvider; without one the buffer stays empty.
C5_NullUnderProvider ==
    last.op = "update" =>
        \A name \in NullFields(last) :
            IF name \in StagedNames(last)
            THEN /\ NullDeferredUrl(name)
                 /\ IF hasProvider THEN ClearMarker(name)
                    ELSE deferredUpdates = <<>>
            ELSE NullImmediate(name)

\* one update with null for the deferred q and for the immediate s, which
\* the URL held twice: s is gone, the occurrences of q are kept, the
\* buffer holds the marker
C5_Witness ==
    /\ last.op = "update"
    /\ hasProvider
    /\ ~last.immediate
    /\ NullFields(last) = {"q", "s"}
    /\ Len(SPGetAll(last.search, "s")) = 2
    /\ ~SPHas(url.search, "s")
    /\ ClearMarker("q")

\* C6: an entry of an update whose field the mapping does not declare,
\* whatever its value, changes neither the URL nor the buffer for its name.
C6_UnknownIgnored ==
    last.op = "update" =>
        \A i \in 1..Len(last.nextValues) :
            LET name == last.nextValues[i].k
            IN name \notin DOMAIN ParamsOf(last.h) =>
                  /\ SPGetAll(url.search, name) = SPGetAll(last.search, name)
                  /\ SameEntry(deferredUpdates, last.deferred, name)

\* a deferred entry for the field is in the provider and a mounted hook
\* declares the field with a deferred kind
Pending(name) ==
    /\ hasProvider
    /\ name \in ObjKeys(deferredUpdates)
    /\ \E h \in mounted :
          /\ name \in DOMAIN ParamsOf(h)
          /\ IsDeferredKind(ParamsOf(h)[name])

\* C7: a staged deferred value (or clear marker) is committed: under a
\* provider, with a hook that declares the field mounted, once the callers
\* have issued their last operation the URL eventually shows the value
\* (lacks the key for a marker).
C7_DeferredCommitted ==
    (hasProvider /\ nOps = MaxOps)
        ~> \A name \in {"q", "n"} :
              Pending(name) =>
                  Shows(url.search, name, ObjGet(deferredUpdates, name))

\* a timeout has just replaced the URL and the URL now shows a pending
\* value it did not show before
C7_Witness ==
    /\ last.op = "fire"
    /\ nReplace = last.count + 1
    /\ \E name \in {"q", "n"} :
          /\ Pending(name)
          /\ ObjGet(deferredUpdates, name).t # "null"
          /\ Shows(url.search, name, ObjGet(deferredUpdates, name))
          /\ ~Shows(last.search, name, ObjGet(deferredUpdates, name))

\* C8: the values a hook returns are the decoding of the current query
\* under its mapping overlaid with the entries of the deferred buffer, the
\* buffer winning for every field in both.
C8_ReadOverlay ==
    ~dirty =>
        \A h \in mounted :
            /\ ~values[h].threw
            /\ DOMAIN values[h].value
                  = DOMAIN ParamsOf(h) \cup ObjKeys(deferredUpdates)
            /\ \A name \in DOMAIN values[h].value :
                  values[h].value[name] =
                      IF name \in ObjKeys(deferredUpdates)
                      THEN ObjGet(deferredUpdates, name)
                      ELSE DecodeField(ParamsOf(h)[name],
                               Lookup(RouterQuery(url.search), name))

\* hook 1 returns the buffered string for q while the URL holds another
\* value for q
C8_Witness ==
    /\ ~dirty
    /\ 1 \in mounted
    /\ "q" \in ObjKeys(deferredUpdates)
    /\ ObjGet(deferredUpdates, "q").t = "string"
    /\ SPHas(url.search, "q")
    /\ ~Shows(url.search, "q", ObjGet(deferredUpdates, "q"))
    /\ values[1].value["q"] = ObjGet(deferredUpdates, "q")

\* the raw value of a field is absent or an empty sequence
NoFirstElement(query, name) ==
    \/ name \notin DOMAIN query
    \/ query[name].t = "array" /\ Len(query[name].v) = 0

\* C9: parseQuery fails exactly when a field declared STRING_REQUIRED is
\* absent or an empty sequence; its inputs are left as they were.
C9_FailsOnlyOnRequired ==
    pq.pc = "done" =>
        (pq.result.threw <=>
            \E name \in DOMAIN pq.params :
                /\ pq.params[name] = STRING_REQUIRED
                /\ NoFirstElement(pq.query, name))

\* a call that failed on a required field whose raw value is an empty
\* sequence, beside a field of another kind
C9_Witness ==
    /\ pq.pc = "done"
    /\ pq.result.threw
    /\ pq.params = [f |-> NUMBER, g |-> STRING_REQUIRED]
    /\ "g" \in DOMAIN pq.query
    /\ pq.query["g"] = Arr(<<>>)

\* the string the scalar kinds select: the first element of a sequence,
\* the raw string itself, nothing for an absent key or an empty sequence
Selected(query, name) ==
    IF NoFirstElement(query, name) THEN Undefined
    ELSE IF query[name].t = "array" THEN Str(query[name].v[1])
    ELSE query[name]

\* the elements of a raw value, in order: none, the one string, the sequence
Elements(query, name) ==
    IF name \notin DOMAIN query THEN <<>>
    ELSE IF query[name].t = "array" THEN query[name].v
    ELSE <<query[name].v>>

\* the value the reference decoder gives a field
IsReference(kind, query, name, value) ==
    CASE kind \in {STRING_KIND, STRING_DEFERRED, STRING_REQUIRED} ->
            value = Selected(query, name)
      [] kind \in {NUMBER, NUMBER_DEFERRED} ->
            LET coerced == ToNumber(Selected(query, name))
            IN IF coerced.t = "NaN" THEN value.t = "undefined"
               ELSE value.t = "number" /\ value.v = coerced.v
      [] kind = STRING_LIST ->
            value.t = "array" /\ value.v = Elements(query, name)
      [] kind = STRING_SET ->
            /\ value.t = "set"
            /\ {value.v[i] : i \in 1..Len(value.v)}
                  = {Elements(query, name)[i] :
                        i \in 1..Len(Elements(query, name))}
            /\ \A i, j \in 1..Len(value.v) :
                  value.v[i] = value.v[j] => i = j
      [] kind = STRING_LIST_DEFAULT_UNDEFINED ->
            IF name \notin DOMAIN query THEN value.t = "undefined"
            ELSE value.t = "array" /\ value.v = Elements(query, name)

\* C10: parseQuery equals the reference decoder for every kind and every
\* raw value shape (absent, single string, sequence of strings).
C10_MatchesReference ==
    (pq.pc = "done" /\ ~pq.result.threw) =>
        /\ DOMAIN pq.result.value = DOMAIN pq.params
        /\ \A name \in DOMAIN pq.params :
              IsReference(pq.params[name], pq.query, name,
                          pq.result.value[name])

\* a number decoded from the first element of a sequence, beside a second
\* number field that is absent and decodes to undefined
C10_Witness ==
    /\ pq.pc = "done"
    /\ pq.params = [f |-> NUMBER_DEFERRED, g |-> NUMBER]
    /\ "f" \in DOMAIN pq.query
    /\ pq.query["f"] = Arr(<< <<"1", "2">>, <<"a">> >>)
    /\ "g" \notin DOMAIN pq.query
    /\ ~pq.result.threw
    /\ pq.result.value["f"] = Num(12)
    /\ pq.result.value["g"] = Undefined

\* the entries of the update of a step whose field hook h declares with one
\* of the kinds
EntriesOfKind(step, kinds) ==
    {i \in 1..Len(step.nextValues) :
        /\ step.nextValues[i].k \in DOMAIN ParamsOf(step.h)
        /\ ParamsOf(step.h)[step.nextValues[i].k] \in kinds}

\* C11: an update of a STRING_LIST or STRING_LIST_DEFAULT_UNDEFINED field to
\* the empty list removes every occurrence of the key; an update to a
\* non-empty list L leaves exactly |L| occurrences, with the values of L in
\* order, whatever the URL held before; a STRING_SET field gets one
\* occurrence per member and none for the empty set.
C11_ListEncoding ==
    last.op = "update" =>
        /\ \A i \in EntriesOfKind(last, {STRING_LIST,
                                         STRING_LIST_DEFAULT_UNDEFINED}) :
              last.nextValues[i].v.t = "array" =>
                  SPGetAll(url.search, last.nextValues[i].k)
                      = last.nextValues[i].v.v
        /\ \A i \in EntriesOfKind(last, {STRING_SET}) :
              last.nextValues[i].v.t = "set" =>
                  LET got == SPGetAll(url.search, last.nextValues[i].k)
                      members == last.nextValues[i].v.v
                  IN /\ Len(got) = Len(members)
                     /\ {got[j] : j \in 1..Len(got)}
                           = {members[j] : j \in 1..Len(members)}

\* the list l, which the URL held three times among other keys, was
\* updated to a list of two other values and now occurs twice, in order
C11_Witness ==
    /\ last.op = "update"
    /\ last.h = 3
    /\ last.nextValues = <<[k |-> "l", v |-> Arr(<< <<"a">>, <<>> >>)]>>
    /\ SPGetAll(last.search, "l") = << <<"b">>, <<"a">>, <<"b">> >>
    /\ SPGetAll(url.search, "l") = << <<"a">>, <<>> >>
    /\ nReplace = last.count + 1

\* what hook h decodes for a field from a query string
DecodedFrom(h, sp, name) ==
    parseQuery(RouterQuery(sp), ParamsOf(h)).value[name]

\* the decoded value d reproduces the written value v: the same value, for
\* a Set the same members
Reproduces(v, d) ==
    IF v.t = "set"
    THEN /\ d.t = "set"
         /\ {d.v[j] : j \in 1..Len(d.v)} = {v.v[j] : j \in 1..Len(v.v)}
    ELSE d = v

\* the entries of the update of a step for declared fields whose value is
\* of the decoded type of the field (not null)
TypedEntries(step) ==
    {i \in 1..Len(step.nextValues) :
        /\ step.nextValues[i].k \in DOMAIN ParamsOf(step.h)
        /\ step.nextValues[i].v.t # "null"}

\* the written value is one the encoding turns into a deletion or skips,
\* or one no query string decodes to
NotRepresented(kind, v) ==
    \/ v.t \in {"undefined", "NaN"}
    \/ v.t = "string" /\ v.v = <<>>
    \/ kind = STRING_LIST_DEFAULT_UNDEFINED /\ v.t = "array" /\ v.v = <<>>

\* C12 as stated: for every non-required kind and every value v of the
\* decoded type of the kind, an immediate update of a field to v followed by
\* the decoding of the resulting query with the same kind reproduces v
\* (list order kept, set membership kept).
C12_RoundTrip ==
    (last.op = "update" /\ last.immediate) =>
        \A i \in TypedEntries(last) :
            Reproduces(last.nextValues[i].v,
                       DecodedFrom(last.h, url.search, last.nextValues[i].k))

\* C12 amended: the round trip reproduces v when v is a non-empty string, a
\* number other than NaN, a list (non-empty for the optional list) or a
\* set. The empty string, NaN and the empty optional list decode to
\* undefined, and for undefined the field decodes to what it decoded to
\* before the update.
C12_RoundTripWritten ==
    (last.op = "update" /\ last.immediate) =>
        \A i \in TypedEntries(last) :
            LET name == last.nextValues[i].k
                v == last.nextValues[i].v
                d == DecodedFrom(last.h, url.search, name)
            IN IF ~NotRepresented(ParamsOf(last.h)[name], v)
               THEN Reproduces(v, d)
               ELSE IF v.t = "undefined"
               THEN d = DecodedFrom(last.h, last.search, name)
               ELSE d = Undefined

\* the deferred number n was updated to 12 with the immediate flag where
\* the URL held 7, and the resulting query decodes to 12
C12_Witness ==
    /\ last.op = "update"
    /\ last.immediate
    /\ last.nextValues = <<[k |-> "n", v |-> Num(12)]>>
    /\ SPGetAll(last.search, "n") = << <<"7">> >>
    /\ SPGetAll(url.search, "n") = << <<"1", "2">> >>
    /\ DecodedFrom(3, url.search, "n") = Num(12)

\* the hook instances whose timeout is outstanding and will flush: it
\* captured deferred updates with a key
FlushingTimers ==
    {h \in Hooks : timer[h].armed /\ Len(timer[h].snapshot) > 0}

\* C13: at most one flush timer is outstanding at any time for the shared
\* buffer, counting every hook instance bound to it (taken here for the
\* timers that captured a non-empty buffer, the ones that will flush).
C13_OneTimerPerBuffer == Cardinality(FlushingTimers) <= 1

\* C14: whenever a flush timer fires, the entries it writes are the
\* entries of the buffer at that time, never the ones captured when the
\* timer was scheduled: no update staged in between is dropped or written in
\* an older version (taken here for the timers that write an entry).
C14_FlushReadsLiveBuffer ==
    (last.op = "fire" /\ hasProvider /\ Len(last.nextValues) > 0) =>
        last.nextValues = last.deferred

\* the fields that some hook instance declares with a deferred kind
DeferredNames ==
    {name \in UNION {DOMAIN ParamsOf(h) : h \in Hooks} :
        \E h \in Hooks : /\ name \in DOMAIN ParamsOf(h)
                         /\ IsDeferredKind(ParamsOf(h)[name])}

\* the fields whose buffer entry is new or has another value than before
\* the last step
AddedOrChanged ==
    {name \in ObjKeys(deferredUpdates) :
        \/ name \notin ObjKeys(last.deferred)
        \/ ObjGet(deferredUpdates, name) # ObjGet(last.deferred, name)}

\* C15: in every reachable state the buffer holds entries only for fields
\* declared STRING_DEFERRED or NUMBER_DEFERRED that were written without the
\* immediate flag; an update to a field of another kind, and any update
\* with the flag (the one of a timeout included), adds and changes no entry.
C15_BufferOnlyDeferred ==
    /\ ObjKeys(deferredUpdates) \subseteq DeferredNames
    /\ last.op = "update" =>
          /\ AddedOrChanged \subseteq StagedNames(last)
          /\ StagedNames(last) = {} => deferredUpdates = last.deferred
    /\ last.op = "fire" => deferredUpdates = last.deferred

\* one update without the flag named the deferred q and the immediate s
\* while another entry was pending: the buffer took q, the URL took s
C15_Witness ==
    /\ last.op = "update"
    /\ ~last.immediate
    /\ last.deferred # <<>>
    /\ last.nextValues = <<[k |-> "q", v |-> Str(<<"a">>)],
                           [k |-> "s", v |-> Str(<<"b">>)]>>
    /\ deferredUpdates = <<[k |-> "q", v |-> Str(<<"a">>)]>>
    /\ SPGetAll(url.search, "s") = << <<"b">> >>
    /\ ~SPHas(last.search, "s")

\* the entries of the update of a step that go to the URL: not undefined,
\* not staged, and either null or for a field the hook declares
UrlEntries(step) ==
    {i \in 1..Len(step.nextValues) :
        /\ step.nextValues[i].v.t # "undefined"
        /\ step.nextValues[i].k \notin StagedNames(step)
        /\ \/ step.nextValues[i].v.t = "null"
           \/ step.nextValues[i].k \in DOMAIN ParamsOf(step.h)}

\* C16: one call of the update function (by a caller or by a timeout)
\* issues at most one URL replacement, which carries the writes of all its
\* entries, and none when the working URL equals the current one, as for an
\* update with deferred or undefined entries only.
C16_OneNavigation ==
    last.op \in {"update", "fire"} =>
        /\ nReplace - last.count \in {0, 1}
        /\ nReplace = last.count <=> url.search = last.search
        /\ \A i \in UrlEntries(last) :
              Shows(url.search, last.nextValues[i].k, last.nextValues[i].v)
        /\ UrlEntries(last) = {} => nReplace = last.count

\* one update with the immediate flag wrote q and s, which the URL lacked,
\* in one replacement
C16_Witness ==
    /\ last.op = "update"
    /\ last.immediate
    /\ last.nextValues = <<[k |-> "q", v |-> Str(<<"a">>)],
                           [k |-> "s", v |-> Str(<<"b">>)]>>
    /\ ~SPHas(last.search, "q") /\ ~SPHas(last.search, "s")
    /\ SPGetAll(url.search, "q") = << <<"a">> >>
    /\ SPGetAll(url.search, "s") = << <<"b">> >>
    /\ nReplace = last.count + 1

\* the fields an update object names with a value that is not undefined
NamedFields(nextValues) ==
    {nextValues[i].k : i \in {j \in 1..Len(nextValues) :
                                  nextValues[j].v.t # "undefined"}}

\* the pairs of a query string for the keys outside a set, in order
OtherPairs(sp, names) == SelectSeq(sp, LAMBDA e : e.k \notin names)

\* what a step leaves alone: path and hash always; in a call of the update
\* function the pairs of every key the update does not name with a value,
\* and the URL, the buffer and the count of replacements when it names none
FrameStep ==
    /\ url'.path = url.path
    /\ url'.hash = url.hash
    /\ last'.op \in {"update", "fire"} =>
          /\ OtherPairs(url'.search, NamedFields(last'.nextValues))
                = OtherPairs(url.search, NamedFields(last'.nextValues))
          /\ NamedFields(last'.nextValues) = {} =>
                UNCHANGED <<url, deferredUpdates, nReplace>>
    /\ last'.op = "reset" => url' = [url EXCEPT !.search = <<>>]

\* C17: an update changes only the query occurrences of the fields it names
\* with a value that is not undefined: path, hash and every other query key
\* keep their values, and an undefined entry changes neither the URL nor
\* the buffer. Reset changes only the query string.
C17_Frame == [][FrameStep]_vars

\* an update wrote s to a URL with a path, a hash and the keys x and q: the
\* new pair follows the two old ones, path and hash are the same
C17_Witness ==
    /\ last.op = "update"
    /\ last.nextValues = <<[k |-> "s", v |-> Str(<<"b">>)]>>
    /\ last.search = <<[k |-> "x", v |-> <<"a">>], [k |-> "q", v |-> <<"b">>]>>
    /\ url = [path |-> "/list",
              search |-> Append(last.search, [k |-> "s", v |-> <<"b">>]),
              hash |-> "#top"]

\* the last operation of the callers was an update with the immediate flag
\* that wrote the string b to q while the buffer held another entry for q
ImmediateAfterStaged ==
    /\ hasProvider
    /\ nOps = MaxOps
    /\ last.op = "update"
    /\ last.immediate
    /\ last.nextValues = <<[k |-> "q", v |-> Str(<<"b">>)]>>
    /\ "q" \in ObjKeys(last.deferred)
    /\ ObjGet(last.deferred, "q") # Str(<<"b">>)

\* C18: after a deferred write to a deferred field was staged, an update
\* with the immediate flag that writes another value to the field is the
\* last write: no later flush of a timeout puts the older staged value in
\* the URL, which keeps showing the value of the most recent update.
C18_LastWriteWins ==
    [](ImmediateAfterStaged => []Shows(url.search, "q", Str(<<"b">>)))

\* the value has the shape of the decoded type of the kind
HasShape(kind, value) ==
    CASE kind \in {STRING_KIND, STRING_DEFERRED} ->
            value.t \in {"string", "undefined"}
      [] kind = STRING_REQUIRED -> value.t = "string"
      [] kind \in {NUMBER, NUMBER_DEFERRED} ->
            value.t \in {"number", "undefined"}
      [] kind = STRING_LIST -> value.t = "array"
      [] kind = STRING_SET -> value.t = "set"
      [] kind = STRING_LIST_DEFAULT_UNDEFINED ->
            value.t \in {"array", "undefined"}

\* C19: the values a hook instance returns have the field names of its own
\* mapping as keys, each value with the shape of its kind: the clear
\* marker null and the entries another instance staged for fields this one
\* does not declare never appear.
C19_ReadConforms ==
    \A h \in mounted :
        /\ ~values[h].threw
        /\ DOMAIN values[h].value = DOMAIN ParamsOf(h)
        /\ \A name \in DOMAIN ParamsOf(h) :
              HasShape(ParamsOf(h)[name], values[h].value[name])

\* C20: after the last update or reset of the callers only finitely many
\* URL replacements occur: from some point on no step, the firing of a
\* timeout included, changes the URL or the buffer.
C20_Quiescence ==
    <>[][url' = url /\ deferredUpdates' = deferredUpdates]_vars

====
